---- MODULE Spec2Model ----
(***************************************************************************)
(* A model of main_compute_CMImap.py: the results container (validation    *)
(* and ensemble stacking), the causality averager, the information grid    *)
(* engine and the surrogate worker pool with its two queues.               *)
(***************************************************************************)
EXTENDS Integers, Sequences, FiniteSets, TLC

VARIABLES
    \* ---- results container driven on its own (ResultsContainer) ----
    rc_results,      \* the `results` argument of ResultsContainer(...)
    rc_surrogates,   \* the `surrogates` argument
    rc_obj,          \* outcome of the constructor: NotCalled, a container or a raise
    rc_file,         \* outcome of save(): NotCalled, the pickled mapping or a raise
    \* ---- compute_causality driven on its own ----
    cc_tau_max,      \* the tau_max argument
    cc_cmi,          \* what cond_mutual_information returns at each lag
    cc_knn_cmi,      \* what knn_cond_mutual_information returns at each lag
    cc_ret,          \* outcome of the call: NotCalled, a return or a raise
    \* ---- compute_information_measures driven on its own ----
    scales,          \* the `scales` argument, a sequence of timescales
    gpc,             \* where the call is: "idle", "outer", "inner", "done"
    gi,              \* index of the outer loop (1-based)
    gj,              \* index of the inner loop (1-based)
    field,           \* field.phase and field.amplitude, set by field.wavelet
    phase_i,         \* the local phase_i
    g_out,           \* the four local dicts of output matrices
    g_writes,        \* how many times each cell of each matrix was assigned
    g_ret,           \* the returned tuple, or NotCalled
    \* ---- main() and the worker processes ----
    num_surrogates,  \* NUM_SURROGATES, the ensemble size N
    num_workers,     \* WORKERS, the pool size W
    mpc,             \* where main() is
    mi,              \* index of main's current for loop
    job_buffer,      \* what main() has put on job_queue and not yet written
    job_queue,       \* messages on the pipe of job_queue, oldest first
    job_rlock,       \* the worker inside job_queue.get() (0: none)
    result_buffer,   \* per worker, what it has put and not yet written
    result_queue,    \* messages on the pipe of result_queue, oldest first
    result_wlock,    \* the worker whose feeder thread is writing (0: none)
    wpc,             \* where each worker process is
    wjob,            \* the job token a worker holds (0: none)
    pills_taken,     \* per worker, how many sentinels it has taken
    takes,           \* per job token, how many times it was read off the pipe
    surrogates_done,
    all_surrogates_results,
    surrogate_result,\* the ensemble container, NotCalled or a raise
    saving_dict,     \* the local saving_dict of the ensemble's save()
    files            \* what has been written, by file name

rcVars == <<rc_results, rc_surrogates, rc_obj, rc_file>>
ccVars == <<cc_tau_max, cc_cmi, cc_knn_cmi, cc_ret>>

gridVars == <<scales, gpc, gi, gj, field, phase_i, g_out, g_writes, g_ret>>

mainVars == <<num_surrogates, num_workers, mpc, mi, surrogates_done,
              all_surrogates_results, surrogate_result, saving_dict, files>>
jobVars == <<job_buffer, job_queue, job_rlock>>
resultVars == <<result_buffer, result_queue, result_wlock>>
queueVars == <<jobVars, resultVars>>
workerVars == <<wpc, wjob, pills_taken, takes>>
poolVars == <<mainVars, queueVars, workerVars>>

vars == <<rcVars, ccVars, gridVars, poolVars>>

----------------------------------------------------------------------------
(* Bounds of the model.                                                    *)
MaxEns == 3        \* ensembles handed to the container hold 0..MaxEns bundles
MaxDim == 2        \* matrices handed to the container are (S,S), S in 1..MaxDim
MaxTau == 4        \* compute_causality is called with tau_max in 0..MaxTau
MaxGrid == 3       \* the grid engine is run on 0..MaxGrid consecutive timescales
MaxN == 2          \* main() is run with 0..MaxN surrogates
MaxW == 2          \* main() is run with 1..MaxW workers

----------------------------------------------------------------------------
(* Python values.  Every value is a record with a `type` field, so that    *)
(* isinstance() and len() read the same way as in the source.              *)

NotCalled == [type |-> "NotCalled"]
PyNone == [type |-> "NoneType"]
PyInt(n) == [type |-> "int", val |-> n]
\* a float, kept exact as the quotient num/den; NaN is the float that np.mean
\* gives for an empty array
PyFloat(n) == [type |-> "float", num |-> n, den |-> 1]
Quotient(n, d) == [type |-> "float", num |-> n, den |-> d]
NaN == [type |-> "float", num |-> 0, den |-> 0]
PyTuple(s) == [type |-> "tuple", items |-> s]
PyList(s) == [type |-> "list", items |-> s]
PyDict(f) == [type |-> "dict", items |-> f]
Raised(e) == [type |-> "raise", exc |-> e]

\* the index set of an array of the given shape (1-based)
Indices(shape) ==
    CASE Len(shape) = 0 -> {<<>>}
      [] Len(shape) = 1 -> {<<i>> : i \in 1..shape[1]}
      [] Len(shape) = 2 -> (1..shape[1]) \X (1..shape[2])
      [] Len(shape) = 3 -> (1..shape[1]) \X (1..shape[2]) \X (1..shape[3])

NdArray(shape, data) == [type |-> "ndarray", shape |-> shape, data |-> data]

\* numpy.atleast_3d: () -> (1,1,1); (M,) -> (1,M,1); (M,N) -> (M,N,1)
AtLeast3d(a) ==
    CASE Len(a.shape) = 0 ->
           NdArray(<<1, 1, 1>>, [x \in Indices(<<1, 1, 1>>) |-> a.data[<<>>]])
      [] Len(a.shape) = 1 ->
           NdArray(<<1, a.shape[1], 1>>,
                   [x \in Indices(<<1, a.shape[1], 1>>) |-> a.data[<<x[2]>>]])
      [] Len(a.shape) = 2 ->
           NdArray(<<a.shape[1], a.shape[2], 1>>,
                   [x \in Indices(<<a.shape[1], a.shape[2], 1>>) |->
                       a.data[<<x[1], x[2]>>]])
      [] Len(a.shape) = 3 -> a

\* numpy.dstack([a, b]): both made at least 3-d, then joined along axis 2
Dstack(a, b) ==
    LET a3 == AtLeast3d(a)
        b3 == AtLeast3d(b)
    IN  IF a3.shape[1] # b3.shape[1] \/ a3.shape[2] # b3.shape[2]
        THEN Raised("ValueError")
        ELSE LET shp == <<a3.shape[1], a3.shape[2], a3.shape[3] + b3.shape[3]>>
             IN  NdArray(shp,
                     [x \in Indices(shp) |->
                         IF x[3] <= a3.shape[3]
                         THEN a3.data[x]
                         ELSE b3.data[<<x[1], x[2], x[3] - a3.shape[3]>>]])

----------------------------------------------------------------------------
(* Each part of the program is driven by a specification of its own; the   *)
(* variables of the other parts then rest at these values.                 *)

RcIdle ==
    /\ rc_results = PyNone
    /\ rc_surrogates = FALSE
    /\ rc_obj = NotCalled
    /\ rc_file = NotCalled

CcIdle ==
    /\ cc_tau_max = 0
    /\ cc_cmi = <<>>
    /\ cc_knn_cmi = <<>>
    /\ cc_ret = NotCalled

GridIdle ==
    /\ scales = <<>>
    /\ gpc = "idle"
    /\ gi = 0
    /\ gj = 0
    /\ field = PyNone
    /\ phase_i = PyNone
    /\ g_out = PyNone
    /\ g_writes = PyNone
    /\ g_ret = NotCalled

PoolIdle ==
    /\ num_surrogates = 0
    /\ num_workers = 0
    /\ mpc = "idle"
    /\ mi = 0
    /\ job_buffer = <<>>
    /\ job_queue = <<>>
    /\ job_rlock = 0
    /\ result_buffer = <<>>
    /\ result_queue = <<>>
    /\ result_wlock = 0
    /\ wpc = <<>>
    /\ wjob = <<>>
    /\ pills_taken = <<>>
    /\ takes = <<>>
    /\ surrogates_done = 0
    /\ all_surrogates_results = <<>>
    /\ surrogate_result = NotCalled
    /\ saving_dict = <<>>
    /\ files = <<>>

----------------------------------------------------------------------------
(* class ResultsContainer                                                  *)

RESULT_ORDER == <<"ph_ph_mi", "ph_amp_mi", "ph_ph_caus", "ph_amp_caus">>

IsListOrTuple(x) == x.type \in {"list", "tuple"}

\* the checks made on one entry of a result (the body of the for loop)
EntryOkMutNoKeyCount(single_result) ==
    /\ single_result.type = "dict"
    /\ \A key \in DOMAIN single_result.items :
          single_result.items[key].type = "ndarray"
EntryOk(single_result) ==
    /\ single_result.type = "dict"
    /\ Cardinality(DOMAIN single_result.items) = 2
    /\ \A key \in DOMAIN single_result.items :
          single_result.items[key].type = "ndarray"

\* validate_single_result: TRUE when no assert fires
validate_single_result(result) ==
    /\ IsListOrTuple(result)
    /\ Len(result.items) = 4
    /\ \A k \in 1..Len(result.items) : EntryOk(result.items[k])

\* __init__: the container, or the AssertionError it raises
ResultsContainer(results, surrogates) ==
    IF ~surrogates
    THEN IF validate_single_result(results)
         THEN [type |-> "ResultsContainer", surrogates |-> surrogates,
               results |-> results]
         ELSE Raised("AssertionError")
    ELSE IF \A k \in 1..Len(results.items) :
                validate_single_result(results.items[k])
         THEN [type |-> "ResultsContainer", surrogates |-> surrogates,
               results |-> results]
         ELSE Raised("AssertionError")

\* the keys result_str + "_" + key of one bundle
FullKeys(single_result) ==
    UNION {{RESULT_ORDER[m] \o "_" \o key :
               key \in DOMAIN single_result.items[m].items} : m \in 1..4}

\* the value stored in one bundle under a full key
ValueAt(single_result, full_key) ==
    LET m == CHOOSE m \in 1..4 :
                 \E key \in DOMAIN single_result.items[m].items :
                     RESULT_ORDER[m] \o "_" \o key = full_key
        key == CHOOSE key \in DOMAIN single_result.items[m].items :
                   RESULT_ORDER[m] \o "_" \o key = full_key
    IN  single_result.items[m].items[key]

\* one pass of the outer loop of save() in ensemble mode: every key of the
\* bundle is stacked onto what saving_dict holds, or stored when it is new
StackBundle(stacked, single_result) ==
    [full_key \in (DOMAIN stacked) \cup FullKeys(single_result) |->
        IF full_key \notin FullKeys(single_result)
        THEN stacked[full_key]
        ELSE IF full_key \in DOMAIN stacked
             THEN IF stacked[full_key].type = "raise"
                  THEN stacked[full_key]
                  ELSE Dstack(stacked[full_key],
                              ValueAt(single_result, full_key))
             ELSE ValueAt(single_result, full_key)]

RECURSIVE StackAll(_, _, _)
StackAll(stacked, bundles, k) ==
    IF k > Len(bundles)
    THEN stacked
    ELSE StackAll(StackBundle(stacked, bundles[k]), bundles, k + 1)

EmptyDict == [full_key \in {} |-> PyNone]

\* save(): the mapping that is pickled, or the exception raised before the
\* file is opened
SavingDict(container) ==
    IF ~container.surrogates
    THEN [full_key \in FullKeys(container.results) |->
             ValueAt(container.results, full_key)]
    ELSE StackAll(EmptyDict, container.results.items, 1)

Save(container) ==
    LET stacked == SavingDict(container)
    IN  IF \E full_key \in DOMAIN stacked :
               stacked[full_key].type = "raise"
        THEN Raised("ValueError")
        ELSE [type |-> "pickle", dict |-> stacked]

----------------------------------------------------------------------------
(* Inputs of the container: bundles as the grid engine returns them, and   *)
(* bundles that break one of the checks.                                   *)

Cell(seed, m, e, i, j) == seed * 1000 + m * 100 + e * 50 + i * 10 + j

Matrix(S, seed, m, e) ==
    NdArray(<<S, S>>, [x \in Indices(<<S, S>>) |-> Cell(seed, m, e, x[1], x[2])])

MeasureSet(S, seed, m) ==
    PyDict([eqq |-> Matrix(S, seed, m, 0), knn |-> Matrix(S, seed, m, 1)])

GoodBundle(S, seed) == PyTuple([m \in 1..4 |-> MeasureSet(S, seed, m)])

Seeds == {0, 1}
GoodBundles == {GoodBundle(S, seed) : S \in 1..MaxDim, seed \in Seeds}

NotADict == PyList(<<>>)
OneKey == PyDict([eqq |-> Matrix(1, 0, 1, 0)])
ThreeKeys == PyDict([eqq |-> Matrix(1, 0, 1, 0), knn |-> Matrix(1, 0, 1, 1),
                     aux |-> Matrix(1, 0, 1, 1)])
BadValue == PyDict([eqq |-> Matrix(1, 0, 1, 0), knn |-> PyFloat(0)])
BadEntries == {NotADict, OneKey, ThreeKeys, BadValue}

WithEntry(bundle, p, entry) ==
    PyTuple([m \in 1..4 |-> IF m = p THEN entry ELSE bundle.items[m]])

TooShort == PyTuple(SubSeq(GoodBundle(1, 0).items, 1, 3))
TooLong == PyTuple(Append(GoodBundle(1, 0).items, MeasureSet(1, 0, 1)))
NotASequence == MeasureSet(1, 0, 1)

\* every single fault at every position
FaultyBundles ==
    {WithEntry(GoodBundle(1, 0), p, entry) : p \in 1..4, entry \in BadEntries}
        \cup {TooShort, TooLong, NotASequence}

\* the ensembles handed to the container: 0..MaxEns bundles of one matrix
\* size, as they are, or with one of them replaced by a faulty bundle or by
\* a bundle of another matrix size
UniformEnsembles(n, S) == [1..n -> {GoodBundle(S, seed) : seed \in Seeds}]

Deviants(S) ==
    FaultyBundles \cup {GoodBundle(T, 0) : T \in (1..MaxDim) \ {S}}

Ensembles ==
    UNION {{PyList(s) : s \in UniformEnsembles(n, S)}
              \cup {PyList([s EXCEPT ![p] = d]) :
                        s \in UniformEnsembles(n, S), p \in 1..n,
                        d \in Deviants(S)} :
              n \in 0..MaxEns, S \in 1..MaxDim}

RcInit ==
    /\ \/ /\ rc_surrogates = FALSE
          /\ rc_results \in GoodBundles \cup FaultyBundles
       \/ /\ rc_surrogates = TRUE
          /\ rc_results \in Ensembles
    /\ rc_obj = NotCalled
    /\ rc_file = NotCalled
    /\ CcIdle
    /\ GridIdle
    /\ PoolIdle

\* ResultsContainer(results=..., surrogates=...)
RcConstruct ==
    /\ rc_obj = NotCalled
    /\ rc_obj' = ResultsContainer(rc_results, rc_surrogates)
    /\ UNCHANGED <<rc_results, rc_surrogates, rc_file, ccVars, gridVars, poolVars>>

\* container.save(filename)
RcSave ==
    /\ rc_obj.type = "ResultsContainer"
    /\ rc_file = NotCalled
    /\ rc_file' = Save(rc_obj)
    /\ UNCHANGED <<rc_results, rc_surrogates, rc_obj, ccVars, gridVars, poolVars>>

RcNext == RcConstruct \/ RcSave

SpecContainer == RcInit /\ [][RcNext]_vars

----------------------------------------------------------------------------
(* Claims about the results container.                                     *)

\* the faults the contract names, read off a bundle that is a sequence
HasNamedFault(bundle) ==
    /\ IsListOrTuple(bundle)
    /\ \/ Len(bundle.items) < 4
       \/ Len(bundle.items) > 4
       \/ \E k \in 1..Len(bundle.items) :
             /\ bundle.items[k].type = "dict"
             /\ \/ Cardinality(DOMAIN bundle.items[k].items) # 2
                \/ \E key \in DOMAIN bundle.items[k].items :
                      bundle.items[k].items[key].type # "ndarray"

InputHasNamedFault ==
    IF rc_surrogates
    THEN \E k \in 1..Len(rc_results.items) : HasNamedFault(rc_results.items[k])
    ELSE HasNamedFault(rc_results)

\* C3: once the constructor has run on a bundle (or on an ensemble holding a
\* bundle) that has fewer or more than 4 entries, an entry whose key count
\* is not 2, or a value that is not an array, the outcome is the raised
\* AssertionError: no container exists and nothing was saved.
C3_ConstructionFails ==
    (rc_obj # NotCalled /\ InputHasNamedFault)
        => (rc_obj = Raised("AssertionError") /\ rc_file = NotCalled)

\* C3 witness: an ensemble of three bundles whose first two are valid and
\* whose last has an entry with three keys was refused.
C3_Witness ==
    /\ rc_surrogates
    /\ rc_obj = Raised("AssertionError")
    /\ Len(rc_results.items) = 3
    /\ validate_single_result(rc_results.items[1])
    /\ validate_single_result(rc_results.items[2])
    /\ rc_results.items[3] = WithEntry(GoodBundle(1, 0), 2, ThreeKeys)

EstimatorKeys == {"eqq", "knn"}
EightKeys == {RESULT_ORDER[m] \o "_" \o e : m \in 1..4, e \in EstimatorKeys}

\* an ensemble of n >= 1 bundles of the grid engine, all with (S,S) matrices
IsEnsembleOf(S, n) ==
    /\ rc_surrogates
    /\ Len(rc_results.items) = n
    /\ n >= 1
    /\ \A k \in 1..n : rc_results.items[k] \in {GoodBundle(S, seed) : seed \in Seeds}

\* the saved mapping holds, under each of the 8 keys, an (S,S,n) array whose
\* slice k is bundle k's matrix
StackedAs(S, n) ==
    /\ rc_file.type = "pickle"
    /\ DOMAIN rc_file.dict = EightKeys
    /\ \A full_key \in EightKeys :
          /\ rc_file.dict[full_key].shape = <<S, S, n>>
          /\ \A k \in 1..n : \A i \in 1..S : \A j \in 1..S :
                rc_file.dict[full_key].data[<<i, j, k>>] =
                    ValueAt(rc_results.items[k], full_key).data[<<i, j>>]

\* C4: after save() of an ensemble of N >= 1 validated bundles with (S,S)
\* matrices, each of the 8 keys holds one (S,S,N) array whose slice [:,:,k]
\* is bundle k's array.
C4_EnsembleStacked ==
    \A S \in 1..MaxDim : \A n \in 1..MaxEns :
        (IsEnsembleOf(S, n) /\ rc_file # NotCalled) => StackedAs(S, n)

\* C4, for the ensembles the stacking branch is taken for (N >= 2).
C4_StackedFromTwo ==
    \A S \in 1..MaxDim : \A n \in 2..MaxEns :
        (IsEnsembleOf(S, n) /\ rc_file # NotCalled) => StackedAs(S, n)

\* what save() writes for an ensemble of one bundle: the bundle's own 2-d
\* matrices, with no trailing axis
C4_SingleSavedFlat ==
    \A S \in 1..MaxDim :
        (IsEnsembleOf(S, 1) /\ rc_file # NotCalled) =>
            /\ rc_file.type = "pickle"
            /\ \A full_key \in EightKeys :
                  rc_file.dict[full_key] = ValueAt(rc_results.items[1], full_key)

C4_WitnessThree ==
    /\ IsEnsembleOf(2, 3)
    /\ rc_file # NotCalled
    /\ rc_results.items[1] # rc_results.items[2]

----------------------------------------------------------------------------
(* compute_causality                                                       *)

NUM_BINS_EQQ == 4
K_KNN == 64

\* range(a, b) as the sequence of its values
Range(a, b) == [k \in 1..(b - a) |-> a + k - 1]

\* the lags of the loop `for tau in range(1, tau_max)`
LagsMutFromZero(tau_max) == Range(0, tau_max)
Lags(tau_max) == Range(1, tau_max)

RECURSIVE SeqSum(_)
SeqSum(s) == IF Len(s) = 0 THEN 0 ELSE s[1] + SeqSum(Tail(s))

\* np.mean(np.array(values)): NaN (with a RuntimeWarning) for no values
NpMean(values) ==
    IF Len(values) = 0 THEN NaN ELSE Quotient(SeqSum(values), Len(values))

\* compute_causality with the two estimators given by what they return at each
\* lag; `lags` records the lags the loop body ran for
compute_causality(tau_max, cmi, knn_cmi) ==
    LET taus == Lags(tau_max)
        results_simple == [k \in 1..Len(taus) |-> cmi[taus[k]]]
        results_knn == [k \in 1..Len(taus) |-> knn_cmi[taus[k]]]
    IN  [type |-> "return",
         value |-> <<NpMean(results_simple), NpMean(results_knn)>>,
         lags |-> taus]

EstimateValues == {1, 4}

CcInit ==
    /\ cc_tau_max \in 0..MaxTau
    /\ cc_cmi \in [0..MaxTau -> EstimateValues]
    /\ cc_knn_cmi \in [0..MaxTau -> EstimateValues]
    /\ cc_ret = NotCalled
    /\ RcIdle
    /\ GridIdle
    /\ PoolIdle

\* compute_causality(ts1, ts2, tau_max, ...)
CcCall ==
    /\ cc_ret = NotCalled
    /\ cc_tau_max \in 0..MaxTau
    /\ cc_ret' = compute_causality(cc_tau_max, cc_cmi, cc_knn_cmi)
    /\ UNCHANGED <<cc_tau_max, cc_cmi, cc_knn_cmi, rcVars, gridVars, poolVars>>

CcNext == CcCall

SpecCausality == CcInit /\ [][CcNext]_vars

\* the sum of a table over the lags lo..hi
RECURSIVE SumOver(_, _, _)
SumOver(tab, lo, hi) == IF lo > hi THEN 0 ELSE tab[lo] + SumOver(tab, lo + 1, hi)

\* C5: for max_lag k >= 2 each returned value is the arithmetic mean of the
\* k-1 per-lag values at lags 1..k-1 (lag 0 and lag k take no part); for
\* k = 2 it is the lag-1 value itself.
C5_MeanOverLags ==
    (cc_ret # NotCalled /\ cc_tau_max >= 2) =>
        /\ cc_ret.type = "return"
        /\ Len(cc_ret.lags) = cc_tau_max - 1
        /\ \A k \in 1..(cc_tau_max - 1) : cc_ret.lags[k] = k
        /\ cc_ret.value[1] =
              Quotient(SumOver(cc_cmi, 1, cc_tau_max - 1), cc_tau_max - 1)
        /\ cc_ret.value[2] =
              Quotient(SumOver(cc_knn_cmi, 1, cc_tau_max - 1), cc_tau_max - 1)
        /\ cc_tau_max = 2 =>
              /\ cc_ret.value[1] = PyFloat(cc_cmi[1])
              /\ cc_ret.value[2] = PyFloat(cc_knn_cmi[1])

\* C5 witness: a call with max_lag 4 has returned, where the value at lag 0
\* and at lag 4 differ from the values that are averaged.
C5_Witness ==
    /\ cc_ret # NotCalled
    /\ cc_tau_max = 4
    /\ cc_cmi[0] = 4 /\ cc_cmi[1] = 1 /\ cc_cmi[2] = 1 /\ cc_cmi[3] = 4
    /\ cc_cmi[4] = 4
    /\ cc_ret.value[1] = Quotient(6, 3)

\* C6: a call with max_lag <= 1 ends in an error and returns no pair.
C6_EmptyRangeFails ==
    (cc_ret # NotCalled /\ cc_tau_max <= 1) => cc_ret.type = "raise"

\* what the call does for max_lag <= 1: it returns the pair (nan, nan)
C6_EmptyRangeReturnsNaN ==
    (cc_ret # NotCalled /\ cc_tau_max <= 1) =>
        (cc_ret.type = "return" /\ cc_ret.value = <<NaN, NaN>>)

----------------------------------------------------------------------------
(* compute_information_measures                                            *)

PERIODS_SPAN == <<5, 96>>

\* what the decomposition at one timescale leaves in the field
PhaseAt(scale) == [sig |-> "phase", scale |-> scale]
AmplitudeAt(scale) == [sig |-> "amplitude", scale |-> scale]

\* field.wavelet(period=..., period_unit='m', cut=1): the field's phase and
\* amplitude are overwritten by those at the given period
wavelet(fld, period) ==
    [phase |-> PhaseAt(period), amplitude |-> AmplitudeAt(period)]

\* a.copy(): a snapshot of the array.  A name bound to the field's own array
\* (no copy) is the record [alias |-> ...], read through Deref.
NpCopyMutAlias(a) == [alias |-> a.sig]
NpCopy(a) == a

Deref(x, fld) == IF "alias" \in DOMAIN x THEN fld[x.alias] ELSE x

\* np.power(a, 2)
NpPower(a, e) == [sig |-> "power", of |-> a, exp |-> e]

\* the calls into pyclits.mutual_inf, kept as the call made
mutual_information(x, y, algorithm, bins) ==
    [fn |-> "mutual_information", x |-> x, y |-> y, algorithm |-> algorithm,
     bins |-> bins]

knn_mutual_information(x, y, k, dualtree) ==
    [fn |-> "knn_mutual_information", x |-> x, y |-> y, k |-> k,
     dualtree |-> dualtree]

\* compute_causality as called from the grid: the pair (eqq, knn) of lag means
CausalityOf(ts1, ts2, tau_max, algorithm, dim_condition, eta, phase_diff) ==
    LET call == [fn |-> "compute_causality", ts1 |-> ts1,
                 ts2 |-> ts2, lags |-> Lags(tau_max),
                 algorithm |-> algorithm, dim_condition |-> dim_condition,
                 eta |-> eta, phase_diff |-> phase_diff]
    IN  <<[est |-> "cond_mutual_information", bins |-> NUM_BINS_EQQ,
           call |-> call],
          [est |-> "knn_cond_mutual_information", k |-> K_KNN, call |-> call]>>

\* np.int(scale_i / 4): the quotient of two integers, made an int
EtaMutRound(scale_i) == (2 * scale_i + 4) \div 8
Eta(scale_i) == scale_i \div 4

\* np.zeros(shape)
NpZeros(shape) == NdArray(shape, [x \in Indices(shape) |-> 0])

\* a[i, j] = v
SetCell(a, i, j, v) == [a EXCEPT !.data[<<i, j>>] = v]
CountCell(a, i, j) == [a EXCEPT !.data[<<i, j>>] = @ + 1]

ZeroDicts(shape) ==
    [phase_phase_coherence |-> [eqq |-> NpZeros(shape), knn |-> NpZeros(shape)],
     phase_amp_mi |-> [eqq |-> NpZeros(shape), knn |-> NpZeros(shape)],
     phase_phase_causality |-> [eqq |-> NpZeros(shape), knn |-> NpZeros(shape)],
     phase_amp_causality |-> [eqq |-> NpZeros(shape), knn |-> NpZeros(shape)]]

\* the windows of the timescale grid the engine is run on
ScaleGrids ==
    UNION {{Range(lo, lo + S) :
               lo \in PERIODS_SPAN[1]..(PERIODS_SPAN[2] + 1 - S)} :
              S \in 0..MaxGrid}

\* entry of compute_information_measures: the output arrays are prepared
GridInit ==
    /\ scales \in ScaleGrids
    /\ gpc = "outer"
    /\ gi = 1
    /\ gj = 1
    /\ field = [phase |-> PyNone, amplitude |-> PyNone]
    /\ phase_i = PyNone
    /\ g_out = ZeroDicts(<<Len(scales), Len(scales)>>)
    /\ g_writes = ZeroDicts(<<Len(scales), Len(scales)>>)
    /\ g_ret = NotCalled
    /\ RcIdle
    /\ CcIdle
    /\ PoolIdle

\* one pass of the outer loop head: decompose at scale_i, keep phase_i
GridOuter ==
    /\ gpc = "outer"
    /\ gi <= Len(scales)
    /\ field' = wavelet(field, scales[gi])
    /\ phase_i' = NpCopy(field'.phase)
    /\ gj' = 1
    /\ gpc' = "inner"
    /\ UNCHANGED <<scales, gi, g_out, g_writes, g_ret, rcVars, ccVars, poolVars>>

\* one pass of the inner loop body: decompose at scale_j, fill cell (i, j) of
\* the eight matrices
GridInner ==
    /\ gpc = "inner"
    /\ gj <= Len(scales)
    /\ LET scale_i == scales[gi]
           scale_j == scales[gj]
           fld == wavelet(field, scale_j)
           phase_j == NpCopy(fld.phase)
           amp_j == NpCopy(fld.amplitude)
           pi == Deref(phase_i, fld)
           pj == Deref(phase_j, fld)
           aj == Deref(amp_j, fld)
           pp == CausalityOf(pi, pj, 7, "EQQ2", 1, 0, TRUE)
           pa == CausalityOf(pi, NpPower(aj, 2), 7, "GCM", 3, Eta(scale_i),
                             FALSE)
       IN  /\ field' = fld
           /\ g_out' =
                [phase_phase_coherence |->
                    [eqq |-> SetCell(g_out.phase_phase_coherence.eqq, gi, gj,
                                mutual_information(pi, pj, "EQQ2", NUM_BINS_EQQ)),
                     knn |-> SetCell(g_out.phase_phase_coherence.knn, gi, gj,
                                knn_mutual_information(pi, pj, K_KNN, TRUE))],
                 phase_amp_mi |->
                    [eqq |-> SetCell(g_out.phase_amp_mi.eqq, gi, gj,
                                mutual_information(pi, aj, "EQQ2", NUM_BINS_EQQ)),
                     knn |-> SetCell(g_out.phase_amp_mi.knn, gi, gj,
                                knn_mutual_information(pi, aj, K_KNN, TRUE))],
                 phase_phase_causality |->
                    [eqq |-> SetCell(g_out.phase_phase_causality.eqq, gi, gj,
                                pp[1]),
                     knn |-> SetCell(g_out.phase_phase_causality.knn, gi, gj,
                                pp[2])],
                 phase_amp_causality |->
                    [eqq |-> SetCell(g_out.phase_amp_causality.eqq, gi, gj,
                                pa[1]),
                     knn |-> SetCell(g_out.phase_amp_causality.knn, gi, gj,
                                pa[2])]]
           /\ g_writes' =
                [name \in DOMAIN g_writes |->
                    [e \in DOMAIN g_writes[name] |->
                        CountCell(g_writes[name][e], gi, gj)]]
    /\ IF gj < Len(scales)
       THEN gj' = gj + 1 /\ UNCHANGED <<gi, gpc>>
       ELSE gj' = 1 /\ gi' = gi + 1 /\ gpc' = "outer"
    /\ UNCHANGED <<scales, phase_i, g_ret, rcVars, ccVars, poolVars>>

\* the loops are over: return the four dicts
GridReturn ==
    /\ gpc = "outer"
    /\ gi > Len(scales)
    /\ g_ret' = PyTuple(<<PyDict(g_out.phase_phase_coherence),
                          PyDict(g_out.phase_amp_mi),
                          PyDict(g_out.phase_phase_causality),
                          PyDict(g_out.phase_amp_causality)>>)
    /\ gpc' = "done"
    /\ UNCHANGED <<scales, gi, gj, field, phase_i, g_out, g_writes, rcVars,
                   ccVars, poolVars>>

GridNext == GridOuter \/ GridInner \/ GridReturn

SpecGrid == GridInit /\ [][GridNext]_vars

----------------------------------------------------------------------------
(* Claims about the grid engine.                                           *)

MeasureNames == {"phase_phase_coherence", "phase_amp_mi",
                 "phase_phase_causality", "phase_amp_causality"}

\* the two signals a cell of the named measure was computed from
CellInputs(name, v) ==
    IF name \in {"phase_phase_coherence", "phase_amp_mi"}
    THEN <<v.x, v.y>>
    ELSE <<v.call.ts1, v.call.ts2>>

\* the two signals cell (i,j) of the named measure is to be computed from
WantedInputs(name, scale_i, scale_j) ==
    CASE name = "phase_phase_coherence" -> <<PhaseAt(scale_i), PhaseAt(scale_j)>>
      [] name = "phase_amp_mi" -> <<PhaseAt(scale_i), AmplitudeAt(scale_j)>>
      [] name = "phase_phase_causality" -> <<PhaseAt(scale_i), PhaseAt(scale_j)>>
      [] name = "phase_amp_causality" ->
            <<PhaseAt(scale_i), NpPower(AmplitudeAt(scale_j), 2)>>

\* C7: no cell is ever assigned twice, and when the engine has returned for
\* a grid of size S >= 1 the result is 4 measure sets of exactly the 2
\* matrices eqq and knn, each of shape (S,S), every cell (i,j) assigned
\* exactly once from the phase at ScaleGrid[i] and the phase or amplitude at
\* ScaleGrid[j].
C7_GridFilledOnce ==
    /\ gpc \in {"outer", "inner", "done"} =>
          \A name \in MeasureNames : \A e \in EstimatorKeys :
             \A x \in DOMAIN g_writes[name][e].data :
                g_writes[name][e].data[x] <= 1
    /\ (gpc = "done" /\ Len(scales) >= 1) =>
          /\ g_ret.type = "tuple"
          /\ Len(g_ret.items) = 4
          /\ \A m \in 1..4 :
                /\ g_ret.items[m].type = "dict"
                /\ DOMAIN g_ret.items[m].items = EstimatorKeys
                /\ \A e \in EstimatorKeys :
                      /\ g_ret.items[m].items[e].type = "ndarray"
                      /\ g_ret.items[m].items[e].shape =
                            <<Len(scales), Len(scales)>>
          /\ g_ret.items[1].items = g_out.phase_phase_coherence
          /\ g_ret.items[2].items = g_out.phase_amp_mi
          /\ g_ret.items[3].items = g_out.phase_phase_causality
          /\ g_ret.items[4].items = g_out.phase_amp_causality
          /\ \A name \in MeasureNames : \A e \in EstimatorKeys :
                \A i \in 1..Len(scales) : \A j \in 1..Len(scales) :
                   /\ g_writes[name][e].data[<<i, j>>] = 1
                   /\ CellInputs(name, g_out[name][e].data[<<i, j>>]) =
                         WantedInputs(name, scales[i], scales[j])

\* C7 witness: the engine has returned for the grid (5, 6, 7); the field
\* holds the last decomposition (scale 7) while cell (1,3) was computed from
\* the phase at scale 5.
C7_Witness ==
    /\ gpc = "done"
    /\ scales = <<5, 6, 7>>
    /\ field.phase = PhaseAt(7)
    /\ g_out.phase_amp_mi.knn.data[<<1, 3>>].x = PhaseAt(5)

\* the smoothing parameter handed to compute_causality for the cells of
\* phase_amp_causality that have been assigned
EtaOfCell(e, i, j) == g_out.phase_amp_causality[e].data[<<i, j>>].call.eta

AssignedCells ==
    IF gpc \in {"outer", "inner", "done"}
    THEN {x \in DOMAIN g_writes.phase_amp_causality.eqq.data :
             g_writes.phase_amp_causality.eqq.data[x] >= 1}
    ELSE {}

\* scale/4 rounded to the nearest integer (halves upwards)
RoundQuarter(scale) == (2 * scale + 4) \div 8

\* C10 as stated: the smoothing parameter of cell (i,j) is round(scale_i/4).
C10_EtaRounded ==
    \A x \in AssignedCells : \A e \in EstimatorKeys :
        EtaOfCell(e, x[1], x[2]) = RoundQuarter(scales[x[1]])

\* C10 as amended: the smoothing parameter of cell (i,j) is scale_i/4
\* rounded down, the largest integer n with 4n <= scale_i.
C10_EtaFloored ==
    \A x \in AssignedCells : \A e \in EstimatorKeys :
        /\ 4 * EtaOfCell(e, x[1], x[2]) <= scales[x[1]]
        /\ scales[x[1]] < 4 * (EtaOfCell(e, x[1], x[2]) + 1)

\* C10 witness: a row at timescale 7 has a cell with smoothing parameter 1
\* (7/4 = 1.75).
C10_Witness ==
    \E x \in AssignedCells :
        scales[x[1]] = 7 /\ EtaOfCell("eqq", x[1], x[2]) = 1

----------------------------------------------------------------------------
(* main() and _process_surrogates                                          *)

DATA_FILE == "bins/tas_Amon_MPI-ESM-HR_data.bin"
SURROGATES_FILE == "bins/tas_Amon_MPI-ESM-HR_surrogates.bin"

\* multiprocessing.Queue.  put() appends the object to a buffer inside the
\* putting process and returns; a feeder thread of that process later takes
\* the queue's writer lock and writes the oldest buffered object to the
\* pipe.  get() takes the queue's reader lock, waits for a message on the
\* pipe, reads the oldest one and gives the lock back.
QueuePut(buffer, x) == Append(buffer, x)
QueueFront(q) == Head(q)
QueueRestMutPeek(q) == q
QueueRest(q) == Tail(q)

\* what a process killed in the middle of a write or of a read leaves on the
\* pipe: a part of a message, which no get() can complete
Torn == [type |-> "torn"]

\* the job token put at line 258 is the integer 1; `id` tells the tokens
\* apart (its position in the queue) and is read by no step of the program
JobToken(id) == [type |-> "int", val |-> 1, id |-> id]

\* number of sentinels main() puts
PillCountMutOneLess(W) == W - 1
PillCount(W) == W

\* the condition of the fetch loop
MoreToFetchMutOneLess(done, N) == done < N - 1
MoreToFetch(done, N) == done < N

\* worker.join() returns once the process has ended
JoinReturnsMutNoWait(w) == TRUE
JoinReturns(w) == wpc[w] \in {"stopped", "crashed"}

\* the bundle compute_information_measures returns for one realization of
\* the field (0: the observed data), on a grid of one timescale, tabulated
Measures == [realization \in 0..MaxN |-> GoodBundle(1, realization)]
InformationMeasures(realization) == Measures[realization]

WorkerIds == DOMAIN wpc

\* the positions of a worker process that is running
Alive == {"get", "recv", "work", "exit"}

PoolInit ==
    /\ num_surrogates \in 0..MaxN
    /\ num_workers \in 1..MaxW
    /\ mpc = "data"
    /\ mi = 0
    /\ job_buffer = <<>>
    /\ job_queue = <<>>
    /\ job_rlock = 0
    /\ result_buffer = [w \in 1..num_workers |-> <<>>]
    /\ result_queue = <<>>
    /\ result_wlock = 0
    /\ wpc = [w \in 1..num_workers |-> "unborn"]
    /\ wjob = [w \in 1..num_workers |-> 0]
    /\ pills_taken = [w \in 1..num_workers |-> 0]
    /\ takes = [id \in 1..num_surrogates |-> 0]
    /\ surrogates_done = 0
    /\ all_surrogates_results = <<>>
    /\ surrogate_result = NotCalled
    /\ saving_dict = <<>>
    /\ files = <<>>
    /\ RcIdle
    /\ CcIdle
    /\ GridIdle

\* the observed data: compute, validate, save
MainData ==
    /\ mpc = "data"
    /\ LET data_results == ResultsContainer(InformationMeasures(0), FALSE)
       IN  IF data_results.type = "raise"
           THEN mpc' = "aborted" /\ UNCHANGED files
           ELSE /\ files' = (DATA_FILE :> Save(data_results))
                /\ mpc' = "fill_jobs"
    /\ mi' = 0
    /\ UNCHANGED <<num_surrogates, num_workers, surrogates_done,
                   all_surrogates_results, surrogate_result, saving_dict,
                   queueVars, workerVars, rcVars, ccVars, gridVars>>

\* for _ in range(NUM_SURROGATES): job_queue.put(1)
MainPutJob ==
    /\ mpc = "fill_jobs"
    /\ IF mi < num_surrogates
       THEN /\ job_buffer' = QueuePut(job_buffer, JobToken(mi + 1))
            /\ mi' = mi + 1
            /\ UNCHANGED mpc
       ELSE /\ mpc' = "fill_pills"
            /\ mi' = 0
            /\ UNCHANGED job_buffer
    /\ UNCHANGED <<num_surrogates, num_workers, surrogates_done,
                   all_surrogates_results, surrogate_result, saving_dict,
                   files, job_queue, job_rlock, resultVars, workerVars,
                   rcVars, ccVars, gridVars>>

\* for _ in range(WORKERS): job_queue.put(None)
MainPutPill ==
    /\ mpc = "fill_pills"
    /\ IF mi < PillCount(num_workers)
       THEN /\ job_buffer' = QueuePut(job_buffer, PyNone)
            /\ mi' = mi + 1
            /\ UNCHANGED mpc
       ELSE /\ mpc' = "start"
            /\ mi' = 0
            /\ UNCHANGED job_buffer
    /\ UNCHANGED <<num_surrogates, num_workers, surrogates_done,
                   all_surrogates_results, surrogate_result, saving_dict,
                   files, job_queue, job_rlock, resultVars, workerVars,
                   rcVars, ccVars, gridVars>>

\* the feeder thread of main() writes the oldest buffered job_queue entry to
\* the pipe; main() is the only process that puts on job_queue
MainFeed ==
    /\ job_buffer # <<>>
    /\ job_queue' = Append(job_queue, QueueFront(job_buffer))
    /\ job_buffer' = QueueRest(job_buffer)
    /\ UNCHANGED <<mainVars, job_rlock, resultVars, workerVars, rcVars,
                   ccVars, gridVars>>

\* for worker in workers: worker.start()
MainStart ==
    /\ mpc = "start"
    /\ IF mi < num_workers
       THEN /\ wpc' = [wpc EXCEPT ![mi + 1] = "get"]
            /\ mi' = mi + 1
            /\ UNCHANGED mpc
       ELSE /\ mpc' = "fetch"
            /\ mi' = 0
            /\ UNCHANGED wpc
    /\ UNCHANGED <<num_surrogates, num_workers, surrogates_done,
                   all_surrogates_results, surrogate_result, saving_dict,
                   files, queueVars, wjob, pills_taken, takes,
                   rcVars, ccVars, gridVars>>

\* one pass of the fetch loop; result_queue.get() blocks while the pipe
\* holds no complete message
MainFetch ==
    /\ mpc = "fetch"
    /\ MoreToFetch(surrogates_done, num_surrogates)
    /\ result_queue # <<>>
    /\ QueueFront(result_queue) # Torn
    /\ all_surrogates_results' =
          Append(all_surrogates_results, QueueFront(result_queue))
    /\ result_queue' = QueueRest(result_queue)
    /\ surrogates_done' = surrogates_done + 1
    /\ UNCHANGED <<num_surrogates, num_workers, mpc, mi, surrogate_result,
                   saving_dict, files, jobVars, result_buffer, result_wlock,
                   workerVars, rcVars, ccVars, gridVars>>

\* the fetch loop ends
MainFetched ==
    /\ mpc = "fetch"
    /\ ~MoreToFetch(surrogates_done, num_surrogates)
    /\ mpc' = "join"
    /\ mi' = 0
    /\ UNCHANGED <<num_surrogates, num_workers, surrogates_done,
                   all_surrogates_results, surrogate_result, saving_dict,
                   files, queueVars, workerVars, rcVars, ccVars, gridVars>>

\* for worker in workers: worker.join()
MainJoin ==
    /\ mpc = "join"
    /\ IF mi < num_workers
       THEN /\ JoinReturns(mi + 1)
            /\ mi' = mi + 1
            /\ UNCHANGED mpc
       ELSE /\ mpc' = "construct"
            /\ mi' = 0
    /\ UNCHANGED <<num_surrogates, num_workers, surrogates_done,
                   all_surrogates_results, surrogate_result, saving_dict,
                   files, queueVars, workerVars, rcVars, ccVars, gridVars>>

\* surrogate_result = ResultsContainer(all_surrogates_results, True)
MainConstruct ==
    /\ mpc = "construct"
    /\ surrogate_result' =
          ResultsContainer(PyList(all_surrogates_results), TRUE)
    /\ mpc' = IF surrogate_result'.type = "raise" THEN "aborted" ELSE "save"
    /\ mi' = 0
    /\ saving_dict' = EmptyDict
    /\ UNCHANGED <<num_surrogates, num_workers, surrogates_done,
                   all_surrogates_results, files, queueVars, workerVars,
                   rcVars, ccVars, gridVars>>

\* surrogate_result.save(...): one pass of `for single_result in
\* self.results` per step; the file is opened and written after the loop
MainSave ==
    /\ mpc = "save"
    /\ IF mi < Len(surrogate_result.results.items)
       THEN /\ saving_dict' =
                  StackBundle(saving_dict,
                              surrogate_result.results.items[mi + 1])
            /\ mi' = mi + 1
            /\ mpc' = IF \E full_key \in DOMAIN saving_dict' :
                            saving_dict'[full_key].type = "raise"
                      THEN "aborted"
                      ELSE "save"
            /\ UNCHANGED files
       ELSE /\ files' = [name \in DOMAIN files \cup {SURROGATES_FILE} |->
                           IF name = SURROGATES_FILE
                           THEN [type |-> "pickle", dict |-> saving_dict]
                           ELSE files[name]]
            /\ mpc' = "done"
            /\ UNCHANGED <<mi, saving_dict>>
    /\ UNCHANGED <<num_surrogates, num_workers, surrogates_done,
                   all_surrogates_results, surrogate_result, queueVars,
                   workerVars, rcVars, ccVars, gridVars>>

Main ==
    \/ MainData
    \/ MainPutJob
    \/ MainPutPill
    \/ MainStart
    \/ MainFetch
    \/ MainFetched
    \/ MainJoin
    \/ MainConstruct
    \/ MainSave

\* mean, var, _ = seasonality binds locals only and is part of the start of
\* the process.  s = jobq.get(), first half: take the reader lock of job_queue
WorkerLock(w) ==
    /\ wpc[w] = "get"
    /\ job_rlock = 0
    /\ job_rlock' = w
    /\ wpc' = [wpc EXCEPT ![w] = "recv"]
    /\ UNCHANGED <<wjob, pills_taken, takes, mainVars, job_buffer, job_queue,
                   resultVars, rcVars, ccVars, gridVars>>

\* s = jobq.get(), second half: read the oldest message and give the lock
\* back; if s is None: break, after which the process waits for its feeder
\* thread to empty the buffer and ends
WorkerGet(w) ==
    /\ wpc[w] = "recv"
    /\ job_queue # <<>>
    /\ LET s == QueueFront(job_queue)
       IN  IF s = PyNone
           THEN /\ wpc' = [wpc EXCEPT ![w] = "exit"]
                /\ pills_taken' = [pills_taken EXCEPT ![w] = @ + 1]
                /\ UNCHANGED <<wjob, takes>>
           ELSE /\ wpc' = [wpc EXCEPT ![w] = "work"]
                /\ wjob' = [wjob EXCEPT ![w] = s.id]
                /\ takes' = [takes EXCEPT ![s.id] = @ + 1]
                /\ UNCHANGED pills_taken
    /\ job_queue' = QueueRest(job_queue)
    /\ job_rlock' = 0
    /\ UNCHANGED <<job_buffer, resultVars, mainVars, rcVars, ccVars,
                   gridVars>>

\* make the surrogate, compute its measures, resq.put(surrogate_result)
WorkerWork(w) ==
    /\ wpc[w] = "work"
    /\ result_buffer' =
          [result_buffer EXCEPT
              ![w] = QueuePut(@, InformationMeasures(wjob[w]))]
    /\ wjob' = [wjob EXCEPT ![w] = 0]
    /\ wpc' = [wpc EXCEPT ![w] = "get"]
    /\ UNCHANGED <<pills_taken, takes, jobVars,
                   result_queue, result_wlock, mainVars, rcVars, ccVars,
                   gridVars>>

\* the process ends once its feeder thread has written everything it put
WorkerExit(w) ==
    /\ wpc[w] = "exit"
    /\ result_buffer[w] = <<>>
    /\ result_wlock # w
    /\ wpc' = [wpc EXCEPT ![w] = "stopped"]
    /\ UNCHANGED <<wjob, pills_taken, takes, mainVars, queueVars,
                   rcVars, ccVars, gridVars>>

Worker(w) ==
    \/ WorkerLock(w)
    \/ WorkerGet(w)
    \/ WorkerWork(w)
    \/ WorkerExit(w)

\* the feeder thread of worker w takes the writer lock of result_queue
FeederLock(w) ==
    /\ wpc[w] \in Alive
    /\ result_buffer[w] # <<>>
    /\ result_wlock = 0
    /\ result_wlock' = w
    /\ UNCHANGED <<result_buffer, result_queue, jobVars, mainVars,
                   workerVars, rcVars, ccVars, gridVars>>

\* the feeder thread of worker w writes the oldest buffered result to the
\* pipe and gives the lock back
FeederSend(w) ==
    /\ wpc[w] \in Alive
    /\ result_wlock = w
    /\ result_queue' = Append(result_queue, QueueFront(result_buffer[w]))
    /\ result_buffer' = [result_buffer EXCEPT ![w] = QueueRest(@)]
    /\ result_wlock' = 0
    /\ UNCHANGED <<jobVars, mainVars, workerVars, rcVars, ccVars, gridVars>>

Feeder(w) == FeederLock(w) \/ FeederSend(w)

\* a worker process is killed where it is.  What it had put and its feeder
\* thread had not yet written is gone with it; a lock it held is never given
\* back; a write it was in the middle of leaves nothing, the start of the
\* message or the whole message on the pipe; a read it was in the middle of
\* (inside get(), with the reader lock) leaves the oldest message where it
\* is, takes the start of it, or takes the whole of it off the pipe, and the
\* message taken is gone: get() never returned it to the worker.
WorkerCrash(w) ==
    /\ wpc[w] \in Alive
    /\ wpc' = [wpc EXCEPT ![w] = "crashed"]
    /\ result_buffer' = [result_buffer EXCEPT ![w] = <<>>]
    /\ IF job_rlock = w /\ job_queue # <<>>
       THEN LET s == QueueFront(job_queue)
            IN  \/ UNCHANGED <<job_queue, takes>>
                \/ /\ job_queue' \in {QueueRest(job_queue),
                                      <<Torn>> \o QueueRest(job_queue)}
                   /\ takes' = IF s = PyNone
                               THEN takes
                               ELSE [takes EXCEPT ![s.id] = @ + 1]
       ELSE UNCHANGED <<job_queue, takes>>
    /\ IF result_wlock = w
       THEN result_queue' \in
               {result_queue,
                Append(result_queue, Torn),
                Append(result_queue, QueueFront(result_buffer[w]))}
       ELSE UNCHANGED result_queue
    /\ UNCHANGED <<wjob, pills_taken, mainVars, job_buffer,
                   job_rlock, result_wlock, rcVars, ccVars, gridVars>>

Next ==
    \/ Main
    \/ MainFeed
    \/ \E w \in WorkerIds : Worker(w)
    \/ \E w \in WorkerIds : Feeder(w)

NextCrash ==
    \/ Main
    \/ MainFeed
    \/ \E w \in WorkerIds : Worker(w)
    \/ \E w \in WorkerIds : Feeder(w)
    \/ \E w \in WorkerIds : WorkerCrash(w)

\* no worker crashes
Spec == PoolInit /\ [][Next]_vars

\* no worker crashes, and every process and feeder thread that can run does
SpecFair ==
    /\ PoolInit
    /\ [][Next]_vars
    /\ WF_vars(Main)
    /\ WF_vars(MainFeed)
    /\ \A w \in 1..MaxW : WF_vars(w \in WorkerIds /\ Worker(w))
    /\ \A w \in 1..MaxW : WF_vars(w \in WorkerIds /\ Feeder(w))

\* workers may crash
SpecCrash == PoolInit /\ [][NextCrash]_vars

----------------------------------------------------------------------------
(* Claims about the worker pool.                                           *)

\* how many entries of a queue or list are the bundle of job token `id`
Occurrences(seq, id) ==
    Cardinality({k \in 1..Len(seq) : seq[k] = InformationMeasures(id)})

\* the running workers that hold job token `id`
Holders(id) == {w \in WorkerIds : wjob[w] = id /\ wpc[w] \in Alive}

\* how many results of job token `id` sit in the workers' put buffers
RECURSIVE Buffered(_, _)
Buffered(id, n) ==
    IF n = 0 THEN 0
    ELSE Occurrences(result_buffer[n], id) + Buffered(id, n - 1)

\* how many results of job token `id` exist, wherever they are
Results(id) ==
    Cardinality(Holders(id)) + Buffered(id, num_workers)
        + Occurrences(result_queue, id)
        + Occurrences(all_surrogates_results, id)

PastFetch == {"join", "construct", "save", "done", "aborted"}

\* C1: with no worker crashing, in every interleaving each job token is
\* taken by at most one worker and gives one result (held by its worker,
\* buffered, on the pipe or collected), the coordinator never holds more than
\* N results, and once it has left the fetch loop every token was taken
\* exactly once and it holds exactly N results, one per token, however the
\* tokens were shared among the workers.
C1_ExactlyNResults ==
    mpc # "idle" =>
        /\ \A id \in 1..num_surrogates :
              /\ takes[id] <= 1
              /\ Results(id) = takes[id]
        /\ Len(all_surrogates_results) = surrogates_done
        /\ surrogates_done <= num_surrogates
        /\ Len(result_queue) + surrogates_done <= num_surrogates
        /\ mpc \in PastFetch =>
              /\ Len(all_surrogates_results) = num_surrogates
              /\ result_queue = <<>>
              /\ \A id \in 1..num_surrogates :
                    /\ takes[id] = 1
                    /\ Occurrences(all_surrogates_results, id) = 1

\* C1 witness: 2 jobs and 2 workers have run to the end and the result of
\* token 2 arrived first: token 1 was read first and every worker writes its
\* results in the order it made them, so each worker did one job.
C1_Witness ==
    /\ mpc = "done"
    /\ num_surrogates = 2
    /\ num_workers = 2
    /\ all_surrogates_results[1] = InformationMeasures(2)

PoolFinished ==
    /\ mpc = "done"
    /\ Len(all_surrogates_results) = num_surrogates
    /\ \A w \in WorkerIds : wpc[w] = "stopped" /\ pills_taken[w] = 1

\* C2: under fair scheduling and with no worker crashing, main() eventually
\* has drained its N results, joined every worker and finished, every worker
\* having taken exactly one sentinel and stopped; also for N = 0.
C2_Terminates == <>PoolFinished

\* C2 witness: a run with no surrogates and 2 workers has finished with 0
\* results and every worker stopped on its sentinel.
C2_Witness ==
    /\ PoolFinished
    /\ num_surrogates = 0
    /\ num_workers = 2
    /\ all_surrogates_results = <<>>

\* a worker has crashed before taking its sentinel
CrashedEarly == \E w \in WorkerIds : wpc[w] = "crashed" /\ pills_taken[w] = 0

\* C8 as stated: once a worker has crashed before taking its sentinel,
\* main() never gets past the fetch loop.
C8_AnyCrashBlocks == CrashedEarly => mpc \notin PastFetch

\* a job token was read off the pipe and its result is nowhere: the worker
\* was killed while reading it, while computing, with the result in its put
\* buffer, or while writing it
JobLost == \E id \in 1..num_surrogates : takes[id] = 1 /\ Results(id) = 0

\* a job token is still to be read and no worker can read it: all of them
\* have crashed, or one crashed inside get() with the reader lock
JobStranded ==
    /\ \/ \A w \in WorkerIds : wpc[w] = "crashed"
       \/ job_rlock # 0 /\ wpc[job_rlock] = "crashed"
    /\ \E k \in 1..Len(job_buffer \o job_queue) :
          (job_buffer \o job_queue)[k].type = "int"

\* C8 as amended: once a worker has crashed with a job token taken and its
\* result not yet on the result pipe, or a job token is still queued while
\* every worker has crashed or one crashed holding the reader lock, main()
\* never drains N results and never reaches the join, the validation or the
\* save.
C8_LostJobBlocks ==
    (JobLost \/ JobStranded) =>
        /\ mpc \notin PastFetch
        /\ surrogates_done < num_surrogates
        /\ SURROGATES_FILE \notin DOMAIN files

\* C8 witness: the only worker did the only job, returned from resq.put and
\* was killed before its feeder thread wrote the result; main() waits on
\* the empty result pipe with nothing collected.
C8_Witness ==
    /\ num_surrogates = 1
    /\ num_workers = 1
    /\ wpc = <<"crashed">>
    /\ takes = <<1>>
    /\ wjob = <<0>>
    /\ job_rlock = 0
    /\ result_wlock = 0
    /\ JobLost
    /\ mpc = "fetch"
    /\ surrogates_done = 0
    /\ result_queue = <<>>

\* C9: the surrogate file exists only when main() has collected all N
\* bundles, every worker process has ended and been joined, and every
\* bundle has passed validation; while fewer than N results are collected,
\* or when the container was refused, there is no surrogate file.
C9_NoPartialEnsemble ==
    /\ SURROGATES_FILE \in DOMAIN files =>
          /\ surrogates_done = num_surrogates
          /\ Len(all_surrogates_results) = num_surrogates
          /\ \A w \in WorkerIds : wpc[w] \in {"stopped", "crashed"}
          /\ \A k \in 1..num_surrogates :
                validate_single_result(all_surrogates_results[k])
          /\ surrogate_result.type = "ResultsContainer"
          /\ surrogate_result.results = PyList(all_surrogates_results)
          /\ files[SURROGATES_FILE] = Save(surrogate_result)
    /\ (surrogates_done < num_surrogates \/ surrogate_result.type = "raise")
          => SURROGATES_FILE \notin DOMAIN files

\* C9 witness: the surrogate file was written for 2 surrogates in a run
\* where one worker crashed and the other did the work.
C9_Witness ==
    /\ SURROGATES_FILE \in DOMAIN files
    /\ num_surrogates = 2
    /\ \E w \in WorkerIds : wpc[w] = "crashed"

====
